---- MODULE Spec2Model ----
(***************************************************************************)
(* pyMOSF core: the composition algebra of src/pyMOSF/core/pipelines.py.   *)
(*                                                                         *)
(* Payloads are pyMOSF.config.Dict objects (a subclass of addict.Dict);    *)
(* callables are Process, ImageProcessingPipeline, ProcessFork and         *)
(* ProcessJoined objects.                                                  *)
(*                                                                         *)
(* Spec       one invocation of a pipeline or of a fork, stage by stage    *)
(* SpecBuild  a client combining processes with the operators >>, * and /  *)
(***************************************************************************)
EXTENDS Integers, Sequences, FiniteSets, TLC

VARIABLES
    callee,          \* the object being invoked (self)
    kwargs,          \* the keyword arguments of the call
    pc,              \* position of the invocation
    payload_kwargs,  \* the accumulator of process(); the kwargs dict of a fork
    index,           \* number of the stage or branch that is next, from 0
    calls,           \* history: the stages invoked, what each received and gave
    result,          \* the value returned to the caller
    raised,          \* the exception that left the call
    tuple_return,    \* ProcessJoined.__call__: the payloads of the branches
    new_kwargs,      \* ProcessJoined.__call__: the union being built
    stack,           \* construction: the operands built and not yet used
    last,            \* construction: the last operator application
    lists,           \* objects: the list objects, by reference
    held,            \* objects: the composites the client holds
    oper,            \* objects: the last operation and the lists before it
    caller_class,    \* ProcessLogicProperty: the field of p_logic
    got,             \* ProcessLogicProperty: the owner each held process came from
    invoked,         \* ProcessLogicProperty: history of the calls of the method
    cache,           \* processFactory: the entries of the lru_cache, oldest first
    created,         \* processFactory: history of the construction calls
    used,            \* processFactory: history of the invocations of instances
    instance,        \* Process: the _instance attribute in each class's dict
    objects,         \* Process: the class of every instance created
    thr,             \* Process: each thread's position in __new__
    returned         \* Process: history of what the constructions returned

joinVars == <<tuple_return, new_kwargs>>

invokeVars ==
    <<callee, kwargs, pc, payload_kwargs, index, calls, result, raised,
      joinVars>>

buildVars == <<stack, last>>

heapVars == <<lists, held, oper>>

logicVars == <<caller_class, got, invoked>>

factoryVars == <<cache, created, used>>

singletonVars == <<instance, objects, thr, returned>>

extVars == <<heapVars, logicVars, factoryVars, singletonVars>>

vars == <<invokeVars, buildVars, extVars>>

(***************************************************************************)
(* Bounds.                                                                 *)
(***************************************************************************)
MaxStages == 3

MaxBranches == 3

MaxSize == 4

MaxCount == 3

MaxRaw == 2

(***************************************************************************)
(* Payload values.  A value is an opaque atom or a mapping (a nested Dict) *)
(* from sub-keys to atoms; the two are tagged so that they can be compared.*)
(***************************************************************************)
Keys == {"image", "contour", "result"}

Atom(a) == [atom |-> a]

MapV(m) == [map |-> m]

IsMap(v) == "map" \in DOMAIN v

EmptyDict == [k \in {} |-> Atom("None")]

Restrict(d, S) == [k \in (DOMAIN d) \cap S |-> d[k]]

\* dict.update for plain (non-addict) mappings: the right operand wins.
PlainUpdate(self, other) ==
    [k \in (DOMAIN self) \cup (DOMAIN other) |->
        IF k \in DOMAIN other THEN other[k] ELSE self[k]]

\* Dict.__ior__ (self |= other).  Dict derives from addict.Dict, whose
\* __ior__ is update(): a key of other replaces the key of self, except
\* that when both hold a mapping the two mappings are merged recursively.
DictUpdate(self, other) ==
    [k \in (DOMAIN self) \cup (DOMAIN other) |->
        IF k \notin DOMAIN other THEN self[k]
        ELSE IF k \notin DOMAIN self \/ ~IsMap(self[k]) \/ ~IsMap(other[k])
             THEN other[k]
             ELSE MapV(PlainUpdate(self[k].map, other[k].map))]

(***************************************************************************)
(* Exceptions.  Python's message for an unbound required parameter is      *)
(* "... missing <count> required <argkind> argument(s): ...".  origin is   *)
(* history: whether the call binding or the stage body raised it.          *)
(***************************************************************************)
MissingArgs(n, kind, where) ==
    [cls |-> "TypeError", text |-> "missing", count |-> n,
     argkind |-> kind, origin |-> where]

OtherError(c, where) ==
    [cls |-> c, text |-> "other", count |-> 0,
     argkind |-> "none", origin |-> where]

IncompatibleArgsException(process, previous) ==
    [cls |-> "IncompatibleArgsException", process |-> process,
     previous |-> previous, origin |-> "pipeline"]

NoException == [cls |-> "none"]

\* The outcome of a call: what it returned or raised, and the state in which
\* the callee left the kwargs dict it was given.
Return(v, kw) == [status |-> "return", value |-> v, received |-> kw]

Raise(e, kw) == [status |-> "raise", value |-> e, received |-> kw]

\* Unpacked with the dict object itself handed to the callee.
UnpackedShared(d, left) == left

\* A call that unpacks dict d into keyword arguments hands the items of d
\* over in a new dict: whatever the callee does to the dict it received
\* (left), d is afterwards what it was.
Unpacked(d, left) == d

(***************************************************************************)
(* Process kinds.  A concrete Process declares the keys it needs as named  *)
(* parameters and captures the others in **kwargs (AbstractProcess).  The  *)
(* Test... kinds are those of tests/test_pipelines.py, ProcessPassThrough  *)
(* is the library's; the others are client processes written to the same   *)
(* contract.                                                               *)
(*   required  the named parameters without default                        *)
(*   argkind   how Python words them when one is missing                   *)
(*   echo      the named parameters copied to the returned Dict            *)
(*   all       TRUE when the body returns a Dict of its kwargs             *)
(*   const     the keys the body returns with fixed values                 *)
(*   exc       the exception the body raises, if any                       *)
(*   pops/sets what the body does to the kwargs dict it received           *)
(***************************************************************************)
ProcessTypes ==
    {"TestIncompatibleProcess1", "TestIncompatibleProcess2", "TestProcess",
     "ProcessPassThrough", "NeedsBoth", "Options", "Scrubber",
     "RaisesValueError", "RaisesTypeError", "CallsHelperWrongly"}

Plain ==
    [required |-> {}, argkind |-> "positional", echo |-> {}, all |-> FALSE,
     const |-> EmptyDict, exc |-> NoException, pops |-> {}, sets |-> EmptyDict]

ProcessDef(t) ==
    CASE t = "TestIncompatibleProcess1" ->
            [Plain EXCEPT !.required = {"image"}, !.echo = {"image"},
                          !.const = [result |-> Atom("test1")]]
      [] t = "TestIncompatibleProcess2" ->
            [Plain EXCEPT !.required = {"contour"}, !.echo = {"contour"},
                          !.const = [result |-> Atom("test2")]]
      [] t = "TestProcess" ->
            [Plain EXCEPT !.const = [result |-> Atom("test")]]
      [] t = "ProcessPassThrough" ->
            [Plain EXCEPT !.all = TRUE]
      [] t = "NeedsBoth" ->
            [Plain EXCEPT !.required = {"image", "contour"},
                          !.argkind = "keyword-only",
                          !.const = [result |-> Atom("both")]]
      [] t = "Options" ->
            [Plain EXCEPT !.const = [result |-> MapV([y |-> "opt"])]]
      [] t = "Scrubber" ->
            [Plain EXCEPT !.pops = {"image"},
                          !.sets = [contour |-> Atom("scrubbed")],
                          !.const = [image |-> Atom("clean")]]
      [] t = "RaisesValueError" ->
            [Plain EXCEPT !.exc = OtherError("ValueError", "body")]
      [] t = "RaisesTypeError" ->
            [Plain EXCEPT !.exc = OtherError("TypeError", "body")]
      [] t = "CallsHelperWrongly" ->
            [Plain EXCEPT !.exc = MissingArgs(1, "positional", "body")]

Process(t) == [kind |-> "Process", type |-> t]

\* A Process called with the items of payload as keyword arguments: Python
\* binds the named parameters (TypeError when some are missing), collects
\* the other keys in a new kwargs dict, then runs the body.
CallProcess(t, payload) ==
    LET d == ProcessDef(t)
        missing == d.required \ DOMAIN payload
        named == Restrict(payload, d.required)
        rest == Restrict(payload, (DOMAIN payload) \ d.required)
        after == PlainUpdate(Restrict(rest, (DOMAIN rest) \ d.pops), d.sets)
    IN  IF missing # {}
        THEN Raise(MissingArgs(Cardinality(missing), d.argkind, "binding"),
                   payload)
        ELSE IF d.exc # NoException
        THEN Raise(d.exc, PlainUpdate(named, after))
        ELSE Return(PlainUpdate(
                        IF d.all THEN after ELSE Restrict(named, d.echo),
                        d.const),
                    PlainUpdate(named, after))

\* type(obj).__name__
name(obj) ==
    CASE obj.kind = "Process" -> obj.type
      [] obj.kind = "Pipeline" -> "ImageProcessingPipeline"
      [] obj.kind = "Fork" -> "ProcessFork"
      [] obj.kind = "Joined" -> "ProcessJoined"

(***************************************************************************)
(* Invocation of the composites.                                           *)
(***************************************************************************)
Pipeline(ps) == [kind |-> "Pipeline", processes |-> ps]

Fork(ps) == [kind |-> "Fork", processes |-> ps]

\* kwargs_mapping is kept as the sequence of its items, in iteration order;
\* index counts the branches from 0, names is a sequence of <<old, new>>.
Joined(fork, mapping) ==
    [kind |-> "Joined", forkedProcess |-> fork, kwargs_mapping |-> mapping]

\* the test of the except clause on e.args[0]
IsMissingOne(e) ==
    /\ e.text = "missing"
    /\ e.count = 1
    /\ e.argkind \in {"keyword-only", "positional"}

PreviousProcess(ps, i) ==
    IF i > 0 THEN name(ps[i]) ELSE "(input of the pipline)"

\* what leaves process() when stage number i (from 0) raised e
Handle(ps, i, e) ==
    IF e.cls = "TypeError" /\ IsMissingOne(e)
    THEN IncompatibleArgsException(name(ps[i + 1]), PreviousProcess(ps, i))
    ELSE e

\* Rename copying the value instead of popping it: the old key stays.
RECURSIVE RenameKeepsOld(_, _)
RenameKeepsOld(ret, names) ==
    IF names = <<>> THEN Return(ret, EmptyDict)
    ELSE LET old == names[1][1]
             new == names[1][2]
         IN  IF old \notin DOMAIN ret
             THEN Raise(OtherError("KeyError", "join"), EmptyDict)
             ELSE RenameKeepsOld(PlainUpdate(ret, [k \in {new} |-> ret[old]]),
                                 Tail(names))

\* ret[new_key] = ret.pop(old_key), for each pair of names in turn
RECURSIVE Rename(_, _)
Rename(ret, names) ==
    IF names = <<>> THEN Return(ret, EmptyDict)
    ELSE LET old == names[1][1]
             new == names[1][2]
         IN  IF old \notin DOMAIN ret
             THEN Raise(OtherError("KeyError", "join"), EmptyDict)
             ELSE Rename(PlainUpdate(Restrict(ret, (DOMAIN ret) \ {old}),
                                     [k \in {new} |-> ret[old]]),
                         Tail(names))

\* one turn of the renaming loop: ret = tuple_return[index], then the pairs
\* of names
RenameItem(rets, item) ==
    LET i == item.index + 1
    IN  IF i \notin DOMAIN rets
        THEN Raise(OtherError("IndexError", "join"), EmptyDict)
        ELSE LET r == Rename(rets[i], item.names)
             IN  IF r.status = "raise" THEN r
                 ELSE Return([rets EXCEPT ![i] = r.value], EmptyDict)

\* the renaming loop of ProcessJoined.__call__ over kwargs_mapping.items()
RECURSIVE RenameAll(_, _)
RenameAll(rets, mapping) ==
    IF mapping = <<>> THEN Return(rets, EmptyDict)
    ELSE LET r == RenameItem(rets, mapping[1])
         IN  IF r.status = "raise" THEN r
             ELSE RenameAll(r.value, Tail(mapping))

\* new_kwargs = tuple_return[0]; for d in tuple_return[1:]: new_kwargs |= d
RECURSIVE Union(_, _)
Union(acc, rest) ==
    IF rest = <<>> THEN acc
    ELSE Union(DictUpdate(acc, rest[1]), Tail(rest))

RECURSIVE Invoke(_, _)
RECURSIVE RunStages(_, _, _)
RECURSIVE RunBranches(_, _, _, _)

\* ImageProcessingPipeline.process from stage number i (from 0) on, with
\* accumulator acc
RunStages(ps, i, acc) ==
    IF i = Len(ps) THEN Return(acc, EmptyDict)
    ELSE LET r == Invoke(ps[i + 1], acc)
         IN  IF r.status = "raise"
             THEN Raise(Handle(ps, i, r.value), EmptyDict)
             ELSE RunStages(ps, i + 1,
                            DictUpdate(Unpacked(acc, r.received), r.value))

\* ProcessFork.__call__ from branch number i (from 0) on
RunBranches(ps, i, kw, done) ==
    IF i = Len(ps) THEN Return(done, kw)
    ELSE LET r == Invoke(ps[i + 1], kw)
         IN  IF r.status = "raise" THEN Raise(r.value, kw)
             ELSE RunBranches(ps, i + 1, Unpacked(kw, r.received),
                              Append(done, r.value))

\* obj called with the items of payload as keyword arguments
Invoke(obj, payload) ==
    CASE obj.kind = "Process" -> CallProcess(obj.type, payload)
      [] obj.kind = "Pipeline" ->
            [RunStages(obj.processes, 0, payload) EXCEPT !.received = payload]
      [] obj.kind = "Fork" -> RunBranches(obj.processes, 0, payload, <<>>)
      [] obj.kind = "Joined" ->
            LET t == Invoke(obj.forkedProcess, payload)
            IN  IF t.status = "raise" THEN t
                ELSE LET r == RenameAll(t.value, obj.kwargs_mapping)
                     IN  IF r.status = "raise" THEN Raise(r.value, payload)
                         ELSE Return(Union(r.value[1], Tail(r.value)),
                                     payload)

(***************************************************************************)
(* One invocation, step by step.                                           *)
(***************************************************************************)
NoOperation == [op |-> "none"]

\* no composite built yet; lists[1] is the list object that is the default
\* value of the parameter processes of ImageProcessingPipeline.__init__
HeapIdle ==
    /\ lists = << <<>> >>
    /\ held = <<>>
    /\ oper = NoOperation

\* the property was not accessed yet: ProcessLogicProperty.__init__
LogicIdle ==
    /\ caller_class = "None"
    /\ got = <<>>
    /\ invoked = <<>>

\* a factory just decorated: the cache is empty
FactoryIdle ==
    /\ cache = <<>>
    /\ created = <<>>
    /\ used = <<>>

\* no Process constructed yet
SingletonIdle ==
    /\ instance = <<>>
    /\ objects = <<>>
    /\ thr = <<>>
    /\ returned = <<>>

ExtIdle == HeapIdle /\ LogicIdle /\ FactoryIdle /\ SingletonIdle

\* what a pipeline's stages are drawn from
Stages ==
    {Process(t) : t \in ProcessTypes}
        \cup {Joined(Fork(<<Process("TestIncompatibleProcess1"),
                            Process("Options")>>), <<>>)}

\* what a fork's branches are drawn from
Branches ==
    {Process(t) : t \in {"TestIncompatibleProcess1", "TestProcess",
                         "ProcessPassThrough", "Scrubber",
                         "RaisesValueError"}}
        \cup {Pipeline(<<Process("Scrubber"), Process("ProcessPassThrough")>>),
              Fork(<<Process("ProcessPassThrough"), Process("TestProcess")>>)}

SeqsUpTo(S, n) == UNION {[1..m -> S] : m \in 0..n}

Inputs ==
    {PlainUpdate(PlainUpdate(a, b), c) :
        a \in {EmptyDict, [image |-> Atom("None")]},
        b \in {EmptyDict, [contour |-> Atom("None")]},
        c \in {EmptyDict, [result |-> Atom("input")],
               [result |-> MapV([x |-> "in"])]}}

\* what the branches of a joined fork are drawn from
JoinBranches ==
    {Process(t) : t \in {"TestProcess", "ProcessPassThrough", "Options",
                         "TestIncompatibleProcess1"}}

Item(i, names) == [index |-> i, names |-> names]

\* the kwargs_mapping of a joined fork: none, the tables of
\* test_process_fork_truediv, a table for a key that only some branches
\* return, and a table that starts with the index of a third branch
JoinTables ==
    {<<>>,
     <<Item(0, <<<<"result", "result1">>>>)>>,
     <<Item(0, <<<<"result", "result1">>>>),
       Item(1, <<<<"result", "result2">>>>)>>,
     <<Item(1, <<<<"image", "picture">>, <<"result", "result2">>>>)>>,
     <<Item(2, <<<<"result", "result3">>>>),
       Item(0, <<<<"contour", "outline">>>>)>>}

Callees ==
    {Pipeline(ps) : ps \in SeqsUpTo(Stages, MaxStages)}
        \cup {Fork(ps) : ps \in {b \in SeqsUpTo(Branches, MaxBranches) :
                                    Len(b) > 1}}
        \cup {Joined(Fork(ps), m) :
                ps \in {b \in SeqsUpTo(JoinBranches, MaxBranches) : Len(b) > 1},
                m \in JoinTables}

Init ==
    /\ callee \in Callees
    /\ kwargs \in Inputs
    /\ pc = "ready"
    /\ payload_kwargs = EmptyDict
    /\ index = 0
    /\ calls = <<>>
    /\ result = EmptyDict
    /\ raised = NoException
    /\ tuple_return = <<>>
    /\ new_kwargs = EmptyDict
    /\ stack = <<>>
    /\ last = NoOperation
    /\ ExtIdle

\* AbstractPipeline.__call__ -> process: payload_kwargs = a Dict of the kwargs
Call ==
    /\ pc = "ready"
    /\ callee.kind = "Pipeline"
    /\ payload_kwargs' = kwargs
    /\ index' = 0
    /\ pc' = "loop"
    /\ UNCHANGED <<callee, kwargs, calls, result, raised>>
    /\ UNCHANGED <<joinVars, buildVars, extVars>>

\* one turn of the for loop: the stage, called with payload_kwargs, returned
\* ret; payload_kwargs |= ret
StageReturns ==
    /\ pc = "loop"
    /\ index < Len(callee.processes)
    /\ LET r == Invoke(callee.processes[index + 1], payload_kwargs)
       IN  /\ r.status = "return"
           /\ calls' = Append(calls, [stage |-> index, got |-> payload_kwargs,
                                      out |-> r])
           /\ payload_kwargs' =
                DictUpdate(Unpacked(payload_kwargs, r.received), r.value)
           /\ index' = index + 1
    /\ UNCHANGED <<callee, kwargs, pc, result, raised>>
    /\ UNCHANGED <<joinVars, buildVars, extVars>>

\* one turn of the for loop: the stage, called with payload_kwargs, raised; the
\* except clause replaces or re-raises the exception, which leaves process()
StageRaises ==
    /\ pc = "loop"
    /\ index < Len(callee.processes)
    /\ LET r == Invoke(callee.processes[index + 1], payload_kwargs)
       IN  /\ r.status = "raise"
           /\ calls' = Append(calls, [stage |-> index, got |-> payload_kwargs,
                                      out |-> r])
           /\ raised' = Handle(callee.processes, index, r.value)
           /\ pc' = "raised"
    /\ UNCHANGED <<callee, kwargs, payload_kwargs, index, result>>
    /\ UNCHANGED <<joinVars, buildVars, extVars>>

\* return payload_kwargs
PipelineReturns ==
    /\ pc = "loop"
    /\ index = Len(callee.processes)
    /\ result' = payload_kwargs
    /\ pc' = "returned"
    /\ UNCHANGED <<callee, kwargs, payload_kwargs, index, calls, raised>>
    /\ UNCHANGED <<joinVars, buildVars, extVars>>

\* ProcessFork.__call__: the generator over self.processes starts; the fork's
\* own kwargs dict holds the items of the call
ForkCall ==
    /\ pc = "ready"
    /\ callee.kind = "Fork"
    /\ payload_kwargs' = kwargs
    /\ index' = 0
    /\ result' = <<>>
    /\ pc' = "fork"
    /\ UNCHANGED <<callee, kwargs, calls, raised>>
    /\ UNCHANGED <<joinVars, buildVars, extVars>>

\* the next branch, called with the fork's kwargs, returned its payload
BranchReturns ==
    /\ pc = "fork"
    /\ index < Len(callee.processes)
    /\ LET r == Invoke(callee.processes[index + 1], payload_kwargs)
       IN  /\ r.status = "return"
           /\ calls' = Append(calls, [stage |-> index, got |-> payload_kwargs,
                                      out |-> r])
           /\ payload_kwargs' = Unpacked(payload_kwargs, r.received)
           /\ result' = Append(result, r.value)
           /\ index' = index + 1
    /\ UNCHANGED <<callee, kwargs, pc, raised>>
    /\ UNCHANGED <<joinVars, buildVars, extVars>>

\* the next branch raised: nothing catches it, the exception leaves the fork
BranchRaises ==
    /\ pc = "fork"
    /\ index < Len(callee.processes)
    /\ LET r == Invoke(callee.processes[index + 1], payload_kwargs)
       IN  /\ r.status = "raise"
           /\ calls' = Append(calls, [stage |-> index, got |-> payload_kwargs,
                                      out |-> r])
           /\ raised' = r.value
           /\ result' = EmptyDict
           /\ pc' = "raised"
    /\ UNCHANGED <<callee, kwargs, payload_kwargs, index>>
    /\ UNCHANGED <<joinVars, buildVars, extVars>>

\* the tuple of the branches' payloads is returned
ForkReturns ==
    /\ pc = "fork"
    /\ index = Len(callee.processes)
    /\ pc' = "returned"
    /\ UNCHANGED <<callee, kwargs, payload_kwargs, index, calls, result, raised>>
    /\ UNCHANGED <<joinVars, buildVars, extVars>>

\* ProcessJoined.__call__: tuple_return = self.forkedProcess called with the
\* items of the call
JoinedCall ==
    /\ pc = "ready"
    /\ callee.kind = "Joined"
    /\ LET t == Invoke(callee.forkedProcess, kwargs)
       IN  /\ t.status = "return"
           /\ tuple_return' = t.value
           /\ calls' = [j \in DOMAIN t.value |->
                            [stage |-> j - 1, got |-> kwargs,
                             out |-> Return(t.value[j], kwargs),
                             renamed |-> t.value[j]]]
    /\ index' = 0
    /\ pc' = "rename"
    /\ UNCHANGED <<callee, kwargs, payload_kwargs, result, raised, new_kwargs>>
    /\ UNCHANGED <<buildVars, extVars>>

\* a branch of the forked process raised: the exception leaves the join
JoinedForkRaises ==
    /\ pc = "ready"
    /\ callee.kind = "Joined"
    /\ LET t == Invoke(callee.forkedProcess, kwargs)
       IN  /\ t.status = "raise"
           /\ raised' = t.value
    /\ pc' = "raised"
    /\ UNCHANGED <<callee, kwargs, payload_kwargs, index, calls, result>>
    /\ UNCHANGED <<joinVars, buildVars, extVars>>

\* one turn of the renaming loop, for the next item of kwargs_mapping
RenameReturns ==
    /\ pc = "rename"
    /\ index < Len(callee.kwargs_mapping)
    /\ LET r == RenameItem(tuple_return, callee.kwargs_mapping[index + 1])
       IN  /\ r.status = "return"
           /\ tuple_return' = r.value
           /\ calls' = [j \in DOMAIN calls |->
                            [calls[j] EXCEPT !.renamed = r.value[j]]]
    /\ index' = index + 1
    /\ UNCHANGED <<callee, kwargs, pc, payload_kwargs, result, raised,
                   new_kwargs>>
    /\ UNCHANGED <<buildVars, extVars>>

\* tuple_return[index] or ret.pop(old_key) raised: nothing catches it
RenameRaises ==
    /\ pc = "rename"
    /\ index < Len(callee.kwargs_mapping)
    /\ LET r == RenameItem(tuple_return, callee.kwargs_mapping[index + 1])
       IN  /\ r.status = "raise"
           /\ raised' = r.value
    /\ pc' = "raised"
    /\ UNCHANGED <<callee, kwargs, payload_kwargs, index, calls, result>>
    /\ UNCHANGED <<joinVars, buildVars, extVars>>

\* new_kwargs = tuple_return[0]
UnionStarts ==
    /\ pc = "rename"
    /\ index = Len(callee.kwargs_mapping)
    /\ new_kwargs' = tuple_return[1]
    /\ index' = 1
    /\ pc' = "union"
    /\ UNCHANGED <<callee, kwargs, payload_kwargs, calls, result, raised,
                   tuple_return>>
    /\ UNCHANGED <<buildVars, extVars>>

\* for d in tuple_return[1:]: new_kwargs |= d.  new_kwargs is the object
\* tuple_return[0], which the update changes in place.
UnionStep ==
    /\ pc = "union"
    /\ index < Len(tuple_return)
    /\ new_kwargs' = DictUpdate(new_kwargs, tuple_return[index + 1])
    /\ tuple_return' = [tuple_return EXCEPT ![1] = new_kwargs']
    /\ index' = index + 1
    /\ UNCHANGED <<callee, kwargs, pc, payload_kwargs, calls, result, raised>>
    /\ UNCHANGED <<buildVars, extVars>>

\* return new_kwargs
JoinedReturns ==
    /\ pc = "union"
    /\ index = Len(tuple_return)
    /\ result' = new_kwargs
    /\ pc' = "returned"
    /\ UNCHANGED <<callee, kwargs, payload_kwargs, index, calls, raised>>
    /\ UNCHANGED <<joinVars, buildVars, extVars>>

Next ==
    \/ Call
    \/ StageReturns
    \/ StageRaises
    \/ PipelineReturns
    \/ ForkCall
    \/ BranchReturns
    \/ BranchRaises
    \/ ForkReturns
    \/ JoinedCall
    \/ JoinedForkRaises
    \/ RenameReturns
    \/ RenameRaises
    \/ UnionStarts
    \/ UnionStep
    \/ JoinedReturns

Spec == Init /\ [][Next]_vars

(***************************************************************************)
(* Properties of pipeline invocation.                                      *)
(***************************************************************************)
Last(W) == CHOOSE j \in W : \A i \in W : i <= j

\* the payloads the first n invoked stages returned
Outs(n) == [j \in 1..n |-> calls[j].out.value]

\* input merged with outs, the rightmost writer of a key giving its value
LastWriteWins(input, outs) ==
    [k \in (DOMAIN input) \cup UNION {DOMAIN outs[j] : j \in DOMAIN outs} |->
        LET W == {j \in DOMAIN outs : k \in DOMAIN outs[j]}
        IN  IF W = {} THEN input[k] ELSE outs[Last(W)][k]]

\* the stage that raised, when a stage of the pipeline raised
Failed == calls[Len(calls)]

\* the pipeline's stage raised because named parameters were not bound
FailedAtBinding ==
    /\ pc = "raised"
    /\ callee.kind = "Pipeline"
    /\ Failed.out.value.origin = "binding"

\* the pipeline's stage or the fork's branch raised in its own logic
FailedInBody ==
    /\ pc = "raised"
    /\ callee.kind \in {"Pipeline", "Fork"}
    /\ Failed.out.value.origin = "body"

\* C1: when all stages succeed, the returned payload holds every key of the
\* input and of the stages' returns, each with the value of the last stage
\* that returned it, or the input's value when no stage returned it.
C1_LastWriterWins ==
    (pc = "returned" /\ callee.kind = "Pipeline") =>
        /\ Len(calls) = Len(callee.processes)
        /\ result = LastWriteWins(kwargs, Outs(Len(calls)))

\* C2: stages are invoked in sequence order, each at most once, a stage only
\* after the stages before it returned (so none after a stage that raised),
\* and a stage receives the input merged with the outputs of the stages
\* before it, later writer winning.
C2_StagesInOrderOnMergedInput ==
    callee.kind = "Pipeline" =>
        /\ Len(calls) <= Len(callee.processes)
        /\ \A j \in 1..Len(calls) :
            /\ calls[j].stage = j - 1
            /\ \A i \in 1..(j - 1) : calls[i].out.status = "return"
            /\ calls[j].got = LastWriteWins(kwargs, Outs(j - 1))

\* The order part of C2 alone: stages run in sequence order, each at most
\* once, and none after a stage that raised.
StagesInOrder ==
    callee.kind = "Pipeline" =>
        /\ Len(calls) <= Len(callee.processes)
        /\ \A j \in 1..Len(calls) :
            /\ calls[j].stage = j - 1
            /\ \A i \in 1..(j - 1) : calls[i].out.status = "return"

\* C3: when stage i > 0 fails because a required named parameter is absent
\* from the accumulator, Incompatible-Payload is raised and names the type of
\* stage i as failing and the type of stage i-1 as preceding.
C3_NamesFailingAndPreceding ==
    (FailedAtBinding /\ index > 0) =>
        raised = IncompatibleArgsException(
                    name(callee.processes[index + 1]),
                    name(callee.processes[index]))

\* The part of C3 and C6 that holds: with exactly one named parameter missing,
\* Incompatible-Payload names the failing stage and the stage before it, or
\* "(input of the pipline)" at the first stage.
OneMissingNamesStages ==
    (FailedAtBinding /\ Failed.out.value.count = 1) =>
        raised = IncompatibleArgsException(
                    name(callee.processes[index + 1]),
                    IF index > 0 THEN name(callee.processes[index])
                    ELSE "(input of the pipline)")

\* C4: whenever required named parameters of a stage (one or several) are
\* absent from the accumulator, Incompatible-Payload is raised, never the raw
\* missing-argument error.
C4_MissingAlwaysIncompatible ==
    FailedAtBinding => raised.cls = "IncompatibleArgsException"

\* C5: an exception raised by a stage's own logic leaves the invocation
\* unchanged; only the exception of a missing stage parameter is replaced.
C5_BodyExceptionUnchanged ==
    FailedInBody => raised = Failed.out.value

\* C6: when the first stage fails because a required named parameter is
\* absent from the input, Incompatible-Payload names the first stage and, as
\* preceding stage, the marker "(input of the pipeline)".
C6_FirstStageMarker ==
    (FailedAtBinding /\ index = 0) =>
        raised = IncompatibleArgsException(
                    name(callee.processes[1]), "(input of the pipeline)")

(***************************************************************************)
(* Properties of fork invocation.                                          *)
(***************************************************************************)
\* C10: a fork of n branches returns an n-tuple whose element i is what
\* branch i returns when invoked alone on the same input, in branch order;
\* every branch receives the items of the input, whatever the branches before
\* it added to, removed from or overwrote in the payload they received.
C10_ForkBranchesIndependent ==
    callee.kind = "Fork" =>
        /\ \A j \in 1..Len(calls) :
            /\ calls[j].stage = j - 1
            /\ calls[j].got = kwargs
        /\ pc = "returned" =>
            /\ Len(result) = Len(callee.processes)
            /\ \A i \in 1..Len(result) :
                    result[i] = Invoke(callee.processes[i], kwargs).value

\* a fork returned after a branch changed the payload it received and a later
\* branch returned all it received
C10_Witness ==
    /\ callee.kind = "Fork"
    /\ pc = "returned"
    /\ DOMAIN kwargs = {"image", "contour"}
    /\ \E i, j \in 1..Len(calls) :
        /\ i < j
        /\ calls[i].out.received # calls[i].got
        /\ callee.processes[j] = Process("ProcessPassThrough")
        /\ result[j] = kwargs
        /\ result[i] # result[j]

(***************************************************************************)
(* Properties of join invocation.  calls holds, for each branch of the     *)
(* fork, what it returned (out) and that payload after renaming (renamed). *)
(***************************************************************************)
Renamed == [j \in DOMAIN calls |-> calls[j].renamed]

\* C11: a join returns one payload whose keys are the union of the keys of
\* the renamed branch outputs, each key with the value of the highest-index
\* branch whose renamed output has the key.
C11_JoinedHighestBranchWins ==
    (pc = "returned" /\ callee.kind = "Joined") =>
        result = LastWriteWins(EmptyDict, Renamed)

\* The part of C11 that holds: the keys of the result are the union of the
\* keys of the renamed branch outputs, and a key holds the value of the
\* highest-index branch that has it unless two branches gave it a mapping.
JoinedKeysAreUnion ==
    (pc = "returned" /\ callee.kind = "Joined") =>
        /\ DOMAIN result = UNION {DOMAIN Renamed[j] : j \in DOMAIN Renamed}
        /\ \A k \in DOMAIN result :
                LET W == {j \in DOMAIN Renamed : k \in DOMAIN Renamed[j]}
                IN  \/ result[k] = Renamed[Last(W)][k]
                    \/ /\ IsMap(result[k])
                       /\ Cardinality({j \in W : IsMap(Renamed[j][k])}) > 1

ListsAbsentKey ==
    \E n \in DOMAIN callee.kwargs_mapping :
        LET item == callee.kwargs_mapping[n]
            i == item.index + 1
        IN  /\ i \in DOMAIN calls
            /\ \E q \in DOMAIN item.names :
                    item.names[q][1] \notin DOMAIN calls[i].out.value

\* every index of the rename table is the index of a branch
IndexesInRange ==
    \A n \in DOMAIN callee.kwargs_mapping :
        callee.kwargs_mapping[n].index + 1 \in DOMAIN calls

\* C13: whenever the rename table lists for some branch an old key that is
\* absent from the branch's output, invoking the join raises the rename-key
\* error (KeyError) and returns no payload.
C13_AbsentKeyRaisesKeyError ==
    (callee.kind = "Joined" /\ calls # <<>> /\ ListsAbsentKey) =>
        /\ pc \in {"rename", "raised"}
        /\ pc = "raised" => raised.cls = "KeyError"

\* The part of C13 that holds: when every index of the table is the index of
\* a branch, an absent old key makes the join raise KeyError, and the join
\* never gets to merging or returning.
InRangeAbsentKeyRaises ==
    (callee.kind = "Joined" /\ calls # <<>> /\ ListsAbsentKey
        /\ IndexesInRange) =>
        /\ pc \in {"rename", "raised"}
        /\ pc = "raised" => raised.cls = "KeyError"

(***************************************************************************)
(* Construction: the chain, fork and join operators (>>, *, /).            *)
(* ProcessJoined(fork) without kwargs_mapping has the empty mapping.       *)
(***************************************************************************)
Ok(obj) == [ok |-> TRUE, obj |-> obj, error |-> "none"]

Err(e) == [ok |-> FALSE, obj |-> NoOperation, error |-> e]

\* issubclass(type(other), AbstractProcess)
IsAbstractProcess(other) == other.kind \in {"Process", "Fork", "Joined"}

\* JoinedIfFork without the join.
NeverJoined(other) == other

\* the implicit join of a fork that is chained: ProcessJoined(other)
JoinedIfFork(other) ==
    IF other.kind = "Fork" THEN Joined(other, <<>>) ELSE other

\* AbstractProcess.__rshift__ appending a pipeline as one stage.
AbstractProcessRshiftNesting(self, other) ==
    IF IsAbstractProcess(other) \/ other.kind = "Pipeline"
    THEN Ok(Pipeline(<<self, JoinedIfFork(other)>>))
    ELSE Err("ValueError")

\* AbstractProcess.__rshift__
AbstractProcessRshift(self, other) ==
    IF IsAbstractProcess(other)
    THEN Ok(Pipeline(<<self, JoinedIfFork(other)>>))
    ELSE IF other.kind = "Pipeline"
    THEN Ok(Pipeline(<<self>> \o other.processes))
    ELSE Err("ValueError")

\* ProcessFork.__rshift__
ForkRshift(self, other) == AbstractProcessRshift(Joined(self, <<>>), other)

\* ImageProcessingPipeline.__rshift__ appending whatever is no pipeline.
PipelineRshiftAppendsAny(self, other) ==
    IF other.kind = "Pipeline"
    THEN Ok(Pipeline(self.processes \o other.processes))
    ELSE Ok(Pipeline(Append(self.processes, JoinedIfFork(other))))

\* ImageProcessingPipeline.__rshift__
PipelineRshift(self, other) ==
    IF IsAbstractProcess(other)
    THEN Ok(Pipeline(Append(self.processes, JoinedIfFork(other))))
    ELSE IF other.kind = "Pipeline"
    THEN Ok(Pipeline(self.processes \o other.processes))
    ELSE Err("ValueError")

\* self >> other
Rshift(self, other) ==
    CASE self.kind = "Fork" -> ForkRshift(self, other)
      [] self.kind = "Pipeline" -> PipelineRshift(self, other)
      [] OTHER -> AbstractProcessRshift(self, other)

\* ProcessFork.__init__ without the assertion.
ProcessForkUnchecked(processes) == Ok(Fork(processes))

\* ProcessFork.__init__
ProcessFork(processes) ==
    IF Len(processes) > 1 THEN Ok(Fork(processes)) ELSE Err("AssertionError")

\* Replicate with one copy too many.
ReplicateOneMore(self, n) == [i \in 1..(n + 1) |-> self]

\* [self] * n
Replicate(self, n) == [i \in 1..n |-> self]

\* AbstractProcess.__mul__ taking a Fork on the right as one branch.
AbstractProcessMulNesting(self, other) ==
    IF other.kind = "int"
    THEN IF self.kind = "Fork" THEN Err("ValueError")
         ELSE ProcessFork(Replicate(self, other.value))
    ELSE IF IsAbstractProcess(other) THEN ProcessFork(<<self, other>>)
    ELSE IF other.kind = "Pipeline" THEN ProcessFork(<<self, other>>)
    ELSE Err("ValueError")

\* AbstractProcess.__mul__ replicating a Fork like any other process.
AbstractProcessMulReforks(self, other) ==
    IF other.kind = "int"
    THEN ProcessFork(Replicate(self, other.value))
    ELSE IF other.kind = "Fork"
    THEN IF self.kind = "Fork"
         THEN ProcessFork(self.processes \o other.processes)
         ELSE ProcessFork(<<self>> \o other.processes)
    ELSE IF IsAbstractProcess(other) THEN ProcessFork(<<self, other>>)
    ELSE IF other.kind = "Pipeline" THEN ProcessFork(<<self, other>>)
    ELSE Err("ValueError")

\* AbstractProcess.__mul__
AbstractProcessMul(self, other) ==
    IF other.kind = "int"
    THEN IF self.kind = "Fork" THEN Err("ValueError")
         ELSE ProcessFork(Replicate(self, other.value))
    ELSE IF other.kind = "Fork"
    THEN IF self.kind = "Fork"
         THEN ProcessFork(self.processes \o other.processes)
         ELSE ProcessFork(<<self>> \o other.processes)
    ELSE IF IsAbstractProcess(other) THEN ProcessFork(<<self, other>>)
    ELSE IF other.kind = "Pipeline" THEN ProcessFork(<<self, other>>)
    ELSE Err("ValueError")

\* ImageProcessingPipeline.__mul__ taking a Fork on the right as
\* AbstractProcess.__mul__ does.
PipelineMulFlattens(self, other) ==
    IF other.kind = "int" THEN ProcessFork(Replicate(self, other.value))
    ELSE IF other.kind = "Fork" THEN ProcessFork(<<self>> \o other.processes)
    ELSE IF IsAbstractProcess(other) THEN ProcessFork(<<self, other>>)
    ELSE IF other.kind = "Pipeline" THEN ProcessFork(<<self, other>>)
    ELSE Err("ValueError")

\* ImageProcessingPipeline.__mul__
PipelineMul(self, other) ==
    IF other.kind = "int" THEN ProcessFork(Replicate(self, other.value))
    ELSE IF other.kind = "Fork" THEN Err("ValueError")
    ELSE IF IsAbstractProcess(other) THEN ProcessFork(<<self, other>>)
    ELSE IF other.kind = "Pipeline" THEN ProcessFork(<<self, other>>)
    ELSE Err("ValueError")

\* self * other
Mul(self, other) ==
    IF self.kind = "Pipeline" THEN PipelineMul(self, other)
    ELSE AbstractProcessMul(self, other)

\* ProcessFork.__truediv__ asking for fewer entries than branches.
TrueDivStrict(self, other) ==
    IF other.kind = "Mapping"
    THEN IF Len(other.items) < Len(self.processes)
         THEN Ok(Joined(self, other.items))
         ELSE Err("AssertionError")
    ELSE Err("ValueError")

\* ProcessFork.__truediv__
TrueDiv(self, other) ==
    IF other.kind = "Mapping"
    THEN IF Len(other.items) <= Len(self.processes)
         THEN Ok(Joined(self, other.items))
         ELSE Err("AssertionError")
    ELSE Err("ValueError")

(***************************************************************************)
(* The client: it instantiates processes and combines the operands it      *)
(* holds.  expr records how an operand was built.                          *)
(***************************************************************************)
BuildTypes == {"TestProcess", "TestAlternativeProcess", "ProcessPassThrough"}

IntValue(n) == [kind |-> "int", value |-> n]

Mapping(items) == [kind |-> "Mapping", items |-> items]

StrValue(v) == [kind |-> "str", value |-> v]

Counts == {IntValue(n) : n \in 0..MaxCount}

RenameTables ==
    {Mapping(<<>>),
     Mapping(<<[index |-> 0, names |-> <<<<"result", "result1">>>>]>>),
     Mapping(<<[index |-> 2, names |-> <<<<"result", "result3">>>>]>>),
     Mapping(<<[index |-> 0, names |-> <<<<"result", "result1">>>>],
               [index |-> 1, names |-> <<<<"result", "result2">>>>],
               [index |-> 2, names |-> <<<<"result", "result3">>>>]>>)}

\* the processes instantiated for an operand, and the operators with a count
\* or a rename table applied in building it
RECURSIVE Size(_)
Size(e) ==
    CASE e.op = "new" -> 1
      [] e.op \in {">>", "*"} -> Size(e.lhs) + Size(e.rhs)
      [] OTHER -> 1 + Size(e.lhs)

RECURSIVE Total(_)
Total(st) == IF st = <<>> THEN 0 ELSE Size(st[1].expr) + Total(Tail(st))

Room == Total(stack) < MaxSize

\* the client tries a value that is no operand of the operator only while it
\* holds little
Small == Total(stack) <= MaxRaw

Top == stack[Len(stack)]

Under == stack[Len(stack) - 1]

\* the stack after an operator applied to the n topmost operands gave r: the
\* composite replaces them; after an exception the client holds what it held
Replaced(n, r, e) ==
    LET rest == SubSeq(stack, 1, Len(stack) - n)
    IN  IF r.ok THEN Append(rest, [obj |-> r.obj, expr |-> e]) ELSE stack

Applied(o, l, r, res) == [op |-> o, lhs |-> l, rhs |-> r, res |-> res]

InitBuild ==
    /\ callee = Pipeline(<<>>)
    /\ kwargs = EmptyDict
    /\ pc = "idle"
    /\ payload_kwargs = EmptyDict
    /\ index = 0
    /\ calls = <<>>
    /\ result = EmptyDict
    /\ raised = NoException
    /\ tuple_return = <<>>
    /\ new_kwargs = EmptyDict
    /\ stack = <<>>
    /\ last = NoOperation
    /\ ExtIdle

\* t(): a process is instantiated
New(t) ==
    /\ Room
    /\ stack' = Append(stack, [obj |-> Process(t),
                               expr |-> [op |-> "new", type |-> t]])
    /\ last' = Applied("new", NoOperation, NoOperation, Ok(Process(t)))
    /\ UNCHANGED <<invokeVars, extVars>>

\* a >> b
Chain ==
    /\ Len(stack) >= 2
    /\ LET r == Rshift(Under.obj, Top.obj)
       IN  /\ stack' = Replaced(2, r, [op |-> ">>", lhs |-> Under.expr,
                                       rhs |-> Top.expr])
           /\ last' = Applied(">>", Under.obj, Top.obj, r)
    /\ UNCHANGED <<invokeVars, extVars>>

\* a * b
ForkTwo ==
    /\ Len(stack) >= 2
    /\ LET r == Mul(Under.obj, Top.obj)
       IN  /\ stack' = Replaced(2, r, [op |-> "*", lhs |-> Under.expr,
                                       rhs |-> Top.expr])
           /\ last' = Applied("*", Under.obj, Top.obj, r)
    /\ UNCHANGED <<invokeVars, extVars>>

\* a * n
ForkByCount(n) ==
    /\ Room
    /\ Len(stack) >= 1
    /\ LET r == Mul(Top.obj, n)
       IN  /\ stack' = Replaced(1, r, [op |-> "*n", lhs |-> Top.expr,
                                       n |-> n.value])
           /\ last' = Applied("*", Top.obj, n, r)
    /\ UNCHANGED <<invokeVars, extVars>>

\* fork / m
Join(m) ==
    /\ Room
    /\ Len(stack) >= 1
    /\ Top.obj.kind = "Fork"
    /\ LET r == TrueDiv(Top.obj, m)
       IN  /\ stack' = Replaced(1, r, [op |-> "/", lhs |-> Top.expr,
                                       mapping |-> m.items])
           /\ last' = Applied("/", Top.obj, m, r)
    /\ UNCHANGED <<invokeVars, extVars>>

\* operands that are no process, fork, join or pipeline
NotChainable == {StrValue("abc")} \cup Counts \cup RenameTables

\* operands that are no count, process, fork, join or pipeline
NotForkable == {StrValue("abc")} \cup RenameTables

\* operands that are no mapping
NotJoinable ==
    {StrValue("abc")} \cup Counts \cup {Process(t) : t \in BuildTypes}

\* a >> x
ChainRaw(x) ==
    /\ Small
    /\ Len(stack) >= 1
    /\ LET r == Rshift(Top.obj, x)
       IN  /\ stack' = Replaced(1, r, [op |-> ">>x", lhs |-> Top.expr])
           /\ last' = Applied(">>", Top.obj, x, r)
    /\ UNCHANGED <<invokeVars, extVars>>

\* a * x
ForkRaw(x) ==
    /\ Small
    /\ Len(stack) >= 1
    /\ LET r == Mul(Top.obj, x)
       IN  /\ stack' = Replaced(1, r, [op |-> "*x", lhs |-> Top.expr])
           /\ last' = Applied("*", Top.obj, x, r)
    /\ UNCHANGED <<invokeVars, extVars>>

\* fork / x
JoinRaw(x) ==
    /\ Small
    /\ Len(stack) >= 1
    /\ Top.obj.kind = "Fork"
    /\ LET r == TrueDiv(Top.obj, x)
       IN  /\ stack' = Replaced(1, r, [op |-> "/x", lhs |-> Top.expr])
           /\ last' = Applied("/", Top.obj, x, r)
    /\ UNCHANGED <<invokeVars, extVars>>

NextBuild ==
    \/ \E t \in BuildTypes : New(t)
    \/ Chain
    \/ ForkTwo
    \/ \E n \in Counts : ForkByCount(n)
    \/ \E m \in RenameTables : Join(m)
    \/ \E x \in NotChainable : ChainRaw(x)
    \/ \E x \in NotForkable : ForkRaw(x)
    \/ \E x \in NotJoinable : JoinRaw(x)

SpecBuild == InitBuild /\ [][NextBuild]_vars

(***************************************************************************)
(* Properties of construction.                                             *)
(***************************************************************************)
\* e applies only >> to newly instantiated processes
RECURSIVE ChainOnly(_)
ChainOnly(e) ==
    CASE e.op = "new" -> TRUE
      [] e.op = ">>" -> ChainOnly(e.lhs) /\ ChainOnly(e.rhs)
      [] OTHER -> FALSE

\* e applies only * to newly instantiated processes
RECURSIVE ForkOnly(_)
ForkOnly(e) ==
    CASE e.op = "new" -> TRUE
      [] e.op = "*" -> ForkOnly(e.lhs) /\ ForkOnly(e.rhs)
      [] OTHER -> FALSE

\* the processes instantiated in e, from left to right
RECURSIVE Leaves(_)
Leaves(e) ==
    CASE e.op = "new" -> <<Process(e.type)>>
      [] e.op \in {">>", "*"} -> Leaves(e.lhs) \o Leaves(e.rhs)
      [] OTHER -> Leaves(e.lhs)

Range(f) == {f[i] : i \in DOMAIN f}

\* C7: for processes A, B, C, both (A >> B) >> C and A >> (B >> C) are a
\* Pipeline with exactly the stages A, B, C in that order.
C7_ChainAssociative ==
    \A i \in DOMAIN stack :
        (ChainOnly(stack[i].expr) /\ Size(stack[i].expr) = 3) =>
            stack[i].obj = Pipeline(Leaves(stack[i].expr))

\* A >> (B >> C) was just built from three different processes, where
\* (A >> B) >> C gives the same pipeline
C7_Witness ==
    /\ stack # <<>>
    /\ Top.expr.op = ">>"
    /\ Top.expr.lhs.op = "new"
    /\ Top.expr.rhs.op = ">>"
    /\ ChainOnly(Top.expr)
    /\ Cardinality(Range(Leaves(Top.expr))) = 3
    /\ last.op = ">>"
    /\ last.rhs.kind = "Pipeline"
    /\ Top.obj = Rshift(Rshift(Top.obj.processes[1],
                               Top.obj.processes[2]).obj,
                        Top.obj.processes[3]).obj

\* C8: a pipeline produced by the chain operator is flat: no stage is a
\* Pipeline or a raw Fork; a Fork that is the left or right operand is in the
\* result as a Joined with the empty rename table.
C8_PipelinesFlat ==
    (last.op = ">>" /\ last.res.ok) =>
        LET ps == last.res.obj.processes
        IN  /\ last.res.obj.kind = "Pipeline"
            /\ \A i \in DOMAIN ps : ps[i].kind \notin {"Pipeline", "Fork"}
            /\ last.lhs.kind = "Fork" => ps[1] = Joined(last.lhs, <<>>)
            /\ last.rhs.kind = "Fork" => ps[Len(ps)] = Joined(last.rhs, <<>>)

\* a Fork was chained to a Pipeline of at least two stages
C8_Witness ==
    /\ last.op = ">>"
    /\ last.res.ok
    /\ last.lhs.kind = "Pipeline"
    /\ Len(last.lhs.processes) >= 2
    /\ last.rhs.kind = "Fork"
    /\ Len(last.res.obj.processes) = Len(last.lhs.processes) + 1

\* C9: no Fork produced by the fork operator has a Fork among its branches;
\* the branches of a Fork operand are flattened into the result, so that
\* p1 * p2 * p3 is a Fork of the branches p1, p2, p3.
C9_NoNestedFork ==
    /\ (last.op = "*" /\ last.res.ok) =>
            \A i \in DOMAIN last.res.obj.processes :
                last.res.obj.processes[i].kind # "Fork"
    /\ \A i \in DOMAIN stack :
            (ForkOnly(stack[i].expr) /\ Size(stack[i].expr) >= 2) =>
                stack[i].obj = Fork(Leaves(stack[i].expr))

\* C14 as stated: for every process or pipeline A and every integer n >= 1,
\* A * n is a Fork of exactly n branches, each of them A.
C14_ForkByAnyCount ==
    (last.op = "*" /\ last.lhs.kind # "Fork" /\ last.rhs.kind = "int"
        /\ last.rhs.value >= 1) =>
        last.res = Ok(Fork(Replicate(last.lhs, last.rhs.value)))

\* C14 amended: for every process or pipeline A and every integer n >= 2,
\* A * n is a Fork of exactly n branches, each of them A.
C14_ForkByCountOfTwoOrMore ==
    (last.op = "*" /\ last.lhs.kind # "Fork" /\ last.rhs.kind = "int"
        /\ last.rhs.value >= 2) =>
        /\ last.res.ok
        /\ last.res.obj.kind = "Fork"
        /\ Len(last.res.obj.processes) = last.rhs.value
        /\ \A i \in DOMAIN last.res.obj.processes :
                last.res.obj.processes[i] = last.lhs
        /\ Top.obj = last.res.obj

\* a pipeline of two stages was forked by the largest count
C14_Witness ==
    /\ last.op = "*"
    /\ last.lhs.kind = "Pipeline"
    /\ Len(last.lhs.processes) = 2
    /\ last.rhs = IntValue(MaxCount)
    /\ last.res.ok
    /\ Len(last.res.obj.processes) = MaxCount

\* every Fork in obj, at any depth, has at least two branches
RECURSIVE ForksHaveTwo(_)
ForksHaveTwo(obj) ==
    CASE obj.kind = "Process" -> TRUE
      [] obj.kind = "Pipeline" ->
            \A i \in DOMAIN obj.processes : ForksHaveTwo(obj.processes[i])
      [] obj.kind = "Fork" ->
            /\ Len(obj.processes) >= 2
            /\ \A i \in DOMAIN obj.processes : ForksHaveTwo(obj.processes[i])
      [] obj.kind = "Joined" -> ForksHaveTwo(obj.forkedProcess)

\* C15: every Fork that exists after any sequence of operators has at least
\* two branches; an operator application that would give a Fork of fewer
\* than two branches fails and gives no Fork.
C15_ForksHaveTwoBranches ==
    /\ \A i \in DOMAIN stack : ForksHaveTwo(stack[i].obj)
    /\ last.op # "none" /\ last.res.ok => ForksHaveTwo(last.res.obj)
    /\ (last.op = "*" /\ last.rhs.kind = "int" /\ last.rhs.value < 2) =>
            /\ ~last.res.ok
            /\ last.res.obj = NoOperation

\* a process was forked by the count 1: the assertion of ProcessFork failed
C15_Witness ==
    /\ last.op = "*"
    /\ last.lhs.kind = "Process"
    /\ last.rhs = IntValue(1)
    /\ last.res = Err("AssertionError")
    /\ Top.obj = last.lhs

\* C16: forking with a Fork on the right flattens it: for a process A that is
\* no Fork, A * F is the Fork of A followed by the branches of F; for Forks F
\* and G of any arities, F * G is the Fork of the branches of F followed by
\* the branches of G.
C16_ForkOnRightFlattened ==
    (last.op = "*" /\ last.rhs.kind = "Fork"
        /\ last.lhs.kind \in {"Process", "Joined", "Fork"}) =>
        last.res = Ok(Fork((IF last.lhs.kind = "Fork" THEN last.lhs.processes
                            ELSE <<last.lhs>>) \o last.rhs.processes))

\* two Forks of different arity were forked
C16_Witness ==
    /\ last.op = "*"
    /\ last.lhs.kind = "Fork"
    /\ last.rhs.kind = "Fork"
    /\ Len(last.lhs.processes) # Len(last.rhs.processes)
    /\ last.res.ok
    /\ Len(last.res.obj.processes) =
            Len(last.lhs.processes) + Len(last.rhs.processes)
    /\ Top.obj = last.res.obj

C18_ForkNotReplicated ==
    (last.op = "*" /\ last.lhs.kind = "Fork" /\ last.rhs.kind = "int") =>
        /\ last.res = Err("ValueError")
        /\ Top.obj = last.lhs

\* a Fork * 2 was rejected
C18_Witness ==
    /\ last.op = "*"
    /\ last.lhs.kind = "Fork"
    /\ last.rhs = IntValue(2)
    /\ last.res = Err("ValueError")
    /\ Top.obj.kind = "Fork"

\* the kinds of right operand an operator supports; a join is a process
Supported(op, other) ==
    CASE op = ">>" -> other.kind \in {"Process", "Fork", "Joined", "Pipeline"}
      [] op = "*" ->
            other.kind \in {"int", "Fork", "Process", "Joined", "Pipeline"}
      [] op = "/" -> other.kind = "Mapping"
      [] OTHER -> TRUE

\* C19: chain, fork and join raise a construction error and give no composite
\* whenever the right operand is of none of the kinds the operator supports.
C19_UnsupportedOperandRejected ==
    ~Supported(last.op, last.rhs) =>
        /\ last.res = Err("ValueError")
        /\ Top.obj = last.lhs

\* a str was chained to a Pipeline
C19_Witness ==
    /\ last.op = ">>"
    /\ last.lhs.kind = "Pipeline"
    /\ last.rhs = StrValue("abc")
    /\ last.res = Err("ValueError")
    /\ Top.obj = last.lhs

\* C20: joining a Fork with a rename table of more entries than the Fork has
\* branches fails and gives no join; a table of at most as many entries as
\* branches, the empty table included, is accepted.
C20_TableNoLongerThanFork ==
    (last.op = "/" /\ last.rhs.kind = "Mapping") =>
        IF Len(last.rhs.items) <= Len(last.lhs.processes)
        THEN /\ last.res = Ok(Joined(last.lhs, last.rhs.items))
             /\ Top.obj = last.res.obj
        ELSE /\ last.res = Err("AssertionError")
             /\ Top.obj = last.lhs

\* a table of three entries was refused for a Fork of two branches
C20_Witness ==
    /\ last.op = "/"
    /\ last.rhs.kind = "Mapping"
    /\ Len(last.rhs.items) = 3
    /\ Len(last.lhs.processes) = 2
    /\ last.res = Err("AssertionError")

(***************************************************************************)
(* Objects.  A Pipeline and a Fork keep a reference to a list object in    *)
(* self.processes; lists maps the references to the lists' contents, so     *)
(* that two composites holding one list, and a list changed in place, can   *)
(* be told apart from equal lists.  The operators are the ones above, with  *)
(* every list they build allocated in lists.                                *)
(***************************************************************************)
MaxHeld == 2

MaxLen == 2

HeapTypes == {"TestProcess", "ProcessPassThrough"}

\* the default value of processes, evaluated once when __init__ is defined
DefaultList == 1

\* a list display or a list operation: a new list object
NewList(h, seq) == Append(h, seq)

\* the constructor stores the list it is given: self.processes = processes
Composite(kind, n, ref) == [kind |-> kind, id |-> n, processes |-> ref]

HasList(x) == x.kind \in {"Pipeline", "Fork"} /\ "id" \in DOMAIN x

Built(h, obj) == [ok |-> TRUE, obj |-> obj, error |-> "none", lists |-> h]

Refused(h, e) == [ok |-> FALSE, obj |-> NoOperation, error |-> e, lists |-> h]

\* ImageProcessingPipeline([...]) on a list display
PipelineOfList(h, n, seq) ==
    Built(NewList(h, seq), Composite("Pipeline", n, Len(h) + 1))

\* ProcessFork([...]) on a list display or on [self] * other
ForkOfList(h, n, seq) ==
    IF Len(seq) > 1
    THEN Built(NewList(h, seq), Composite("Fork", n, Len(h) + 1))
    ELSE Refused(h, "AssertionError")

\* ProcessJoined(self, other)
JoinedObject(n, fork, mapping) ==
    [kind |-> "Joined", id |-> n, forkedProcess |-> fork,
     kwargs_mapping |-> mapping]

\* AbstractProcess.__rshift__
AbstractProcessRshiftHeap(h, n, self, other) ==
    IF IsAbstractProcess(other)
    THEN PipelineOfList(h, n, <<self, JoinedIfFork(other)>>)
    ELSE IF other.kind = "Pipeline"
    THEN PipelineOfList(h, n, <<self>> \o h[other.processes])
    ELSE Refused(h, "ValueError")

\* ProcessFork.__rshift__
ForkRshiftHeap(h, n, self, other) ==
    AbstractProcessRshiftHeap(h, n, Joined(self, <<>>), other)

\* ImageProcessingPipeline.__rshift__ appending to its own list and returning
\* itself.
PipelineRshiftInPlace(h, n, self, other) ==
    IF IsAbstractProcess(other)
    THEN Built([h EXCEPT ![self.processes] = Append(@, JoinedIfFork(other))],
               self)
    ELSE IF other.kind = "Pipeline"
    THEN Built([h EXCEPT ![self.processes] = @ \o h[other.processes]], self)
    ELSE Refused(h, "ValueError")

\* ImageProcessingPipeline.__rshift__
PipelineRshiftHeap(h, n, self, other) ==
    IF IsAbstractProcess(other)
    THEN PipelineOfList(h, n, Append(h[self.processes], JoinedIfFork(other)))
    ELSE IF other.kind = "Pipeline"
    THEN PipelineOfList(h, n, h[self.processes] \o h[other.processes])
    ELSE Refused(h, "ValueError")

\* AbstractProcess.__mul__
AbstractProcessMulHeap(h, n, self, other) ==
    IF other.kind = "int"
    THEN IF self.kind = "Fork" THEN Refused(h, "ValueError")
         ELSE ForkOfList(h, n, Replicate(self, other.value))
    ELSE IF other.kind = "Fork"
    THEN IF self.kind = "Fork"
         THEN ForkOfList(h, n, h[self.processes] \o h[other.processes])
         ELSE ForkOfList(h, n, <<self>> \o h[other.processes])
    ELSE IF IsAbstractProcess(other) THEN ForkOfList(h, n, <<self, other>>)
    ELSE IF other.kind = "Pipeline" THEN ForkOfList(h, n, <<self, other>>)
    ELSE Refused(h, "ValueError")

\* ImageProcessingPipeline.__mul__
PipelineMulHeap(h, n, self, other) ==
    IF other.kind = "int" THEN ForkOfList(h, n, Replicate(self, other.value))
    ELSE IF other.kind = "Fork" THEN Refused(h, "ValueError")
    ELSE IF IsAbstractProcess(other) THEN ForkOfList(h, n, <<self, other>>)
    ELSE IF other.kind = "Pipeline" THEN ForkOfList(h, n, <<self, other>>)
    ELSE Refused(h, "ValueError")

\* ProcessFork.__truediv__
TrueDivHeap(h, n, self, other) ==
    IF other.kind = "Mapping"
    THEN IF Len(other.items) <= Len(h[self.processes])
         THEN Built(h, JoinedObject(n, self, other.items))
         ELSE Refused(h, "AssertionError")
    ELSE Refused(h, "ValueError")

\* self >> other
RshiftHeap(h, n, self, other) ==
    CASE self.kind = "Fork" -> ForkRshiftHeap(h, n, self, other)
      [] self.kind = "Pipeline" -> PipelineRshiftHeap(h, n, self, other)
      [] OTHER -> AbstractProcessRshiftHeap(h, n, self, other)

\* self * other
MulHeap(h, n, self, other) ==
    IF self.kind = "Pipeline" THEN PipelineMulHeap(h, n, self, other)
    ELSE AbstractProcessMulHeap(h, n, self, other)

(***************************************************************************)
(* The client of the objects: it keeps every composite it built, applies   *)
(* the operators to what it holds and to processes, and may call the two    *)
(* methods that change a composite in place.                                *)
(***************************************************************************)
CoreIdle ==
    /\ callee = Pipeline(<<>>)
    /\ kwargs = EmptyDict
    /\ pc = "idle"
    /\ payload_kwargs = EmptyDict
    /\ index = 0
    /\ calls = <<>>
    /\ result = EmptyDict
    /\ raised = NoException
    /\ tuple_return = <<>>
    /\ new_kwargs = EmptyDict
    /\ stack = <<>>
    /\ last = NoOperation

otherVarsHeap == <<invokeVars, buildVars, logicVars, factoryVars, singletonVars>>

InitHeap == CoreIdle /\ ExtIdle

HeldRange == {held[i] : i \in DOMAIN held}

LeftOperands == HeldRange \cup {Process(t) : t \in HeapTypes}

RightOperands ==
    LeftOperands \cup {IntValue(2), StrValue("abc")}

HeapTables ==
    {Mapping(<<>>),
     Mapping(<<[index |-> 0, names |-> <<<<"result", "result1">>>>]>>),
     StrValue("abc")}

Operated(o, self, other, res) ==
    [op |-> o, self |-> self, other |-> other, before |-> lists, res |-> res]

\* the client keeps the composite an operator returned
Keep(o, self, other, res) ==
    /\ lists' = res.lists
    /\ held' = IF res.ok THEN Append(held, res.obj) ELSE held
    /\ oper' = Operated(o, self, other, [ok |-> res.ok, obj |-> res.obj,
                                         error |-> res.error])
    /\ UNCHANGED otherVarsHeap

\* ImageProcessingPipeline(): processes is the default list
NewDefault ==
    /\ Len(held) < MaxHeld
    /\ Keep("new", NoOperation, NoOperation,
            Built(lists, Composite("Pipeline", Len(held) + 1, DefaultList)))

\* self >> other
ChainHeap(self, other) ==
    /\ Len(held) < MaxHeld
    /\ self.kind # "Joined"
    /\ Keep(">>", self, other, RshiftHeap(lists, Len(held) + 1, self, other))

\* self * other
ForkHeap(self, other) ==
    /\ Len(held) < MaxHeld
    /\ self.kind # "Joined"
    /\ Keep("*", self, other, MulHeap(lists, Len(held) + 1, self, other))

\* self / other, self a fork
JoinHeap(self, other) ==
    /\ Len(held) < MaxHeld
    /\ self.kind = "Fork"
    /\ Keep("/", self, other, TrueDivHeap(lists, Len(held) + 1, self, other))

\* AbstractPipeline.append_process: self.processes.append(process)
AppendProcess(self, t) ==
    /\ self.kind = "Pipeline"
    /\ Len(lists[self.processes]) < MaxLen
    /\ lists' = [lists EXCEPT ![self.processes] = Append(@, Process(t))]
    /\ oper' = Operated("append_process", self, Process(t),
                        [ok |-> TRUE, obj |-> NoOperation, error |-> "none"])
    /\ UNCHANGED <<held, otherVarsHeap>>

\* ProcessFork.__setitem__: self.processes[key] = process
SetItem(self, key, t) ==
    /\ self.kind = "Fork"
    /\ key < Len(lists[self.processes])
    /\ lists' = [lists EXCEPT ![self.processes][key + 1] = Process(t)]
    /\ oper' = Operated("__setitem__", self, Process(t),
                        [ok |-> TRUE, obj |-> NoOperation, error |-> "none"])
    /\ UNCHANGED <<held, otherVarsHeap>>

NextHeap ==
    \/ NewDefault
    \/ \E self \in LeftOperands, other \in RightOperands : ChainHeap(self, other)
    \/ \E self \in LeftOperands, other \in RightOperands : ForkHeap(self, other)
    \/ \E self \in HeldRange, other \in HeapTables : JoinHeap(self, other)
    \/ \E self \in HeldRange, t \in HeapTypes : AppendProcess(self, t)
    \/ \E self \in HeldRange, key \in 0..(MaxLen - 1), t \in HeapTypes :
            SetItem(self, key, t)

SpecHeap == InitHeap /\ [][NextHeap]_vars

(***************************************************************************)
(* Properties of the objects                                               *)
(***************************************************************************)
IsOperator == oper.op \in {">>", "*", "/"}

\* every list that existed before the operator was applied is as it was
ListsUnchanged ==
    \A r \in DOMAIN oper.before : lists[r] = oper.before[r]

\* the composite returned is no operand, no composite held before, and its
\* list is no list that existed before
NewComposite ==
    /\ oper.res.obj \notin {oper.self, oper.other}
    /\ \A i \in 1..(Len(held) - 1) : held[i].id # oper.res.obj.id
    /\ HasList(oper.res.obj) => oper.res.obj.processes \notin DOMAIN oper.before

\* C21: every application of >>, * and / returns a new composite and leaves
\* the stage sequence of every operand Pipeline and the branch list of every
\* operand Fork as they were, also when it fails with a construction error.
C21_OperandsUnchanged ==
    IsOperator =>
        /\ ListsUnchanged
        /\ \A x \in {oper.self, oper.other} :
                HasList(x) => lists[x.processes] = oper.before[x.processes]
        /\ oper.res.ok => NewComposite

\* a pipeline chained to a held pipeline: the result has the stages of both
C21_Witness ==
    /\ oper.op = ">>"
    /\ oper.self.kind = "Pipeline" /\ oper.other.kind = "Pipeline"
    /\ oper.res.ok
    /\ Len(lists[oper.self.processes]) >= 2
    /\ lists[oper.res.obj.processes] =
            oper.before[oper.self.processes] \o oper.before[oper.other.processes]

IsMutation == oper.op \in {"append_process", "__setitem__"}

\* the composites held other than the one the method was called on
Others == {x \in HeldRange : HasList(x) /\ x.id # oper.self.id}

\* C30: append_process on one Pipeline or item assignment on one Fork
\* changes only that object: every other Pipeline or Fork held, Pipelines
\* created with the default constructor arguments included, keeps its
\* sequence unchanged.
C30_ListsNotShared ==
    IsMutation =>
        \A x \in Others : lists[x.processes] = oper.before[x.processes]

\* the composites that were given a list of their own keep it unchanged
OwnListsNotShared ==
    IsMutation =>
        \A x \in Others :
            x.processes # DefaultList =>
                lists[x.processes] = oper.before[x.processes]

\* only the default list is held by more than one composite
OnlyDefaultShared ==
    \A i, j \in DOMAIN held :
        (/\ HasList(held[i]) /\ HasList(held[j])
         /\ i # j
         /\ held[i].processes = held[j].processes)
            => held[i].processes = DefaultList

(***************************************************************************)
(* processLogicProperty.  The decorator creates one ProcessLogicProperty,  *)
(* p_logic, when the class is defined; the getter of the property stores    *)
(* the instance it is accessed on in p_logic.caller_class and returns       *)
(* p_logic itself.  got[i] is the instance the i-th access was made on:     *)
(* every process the client obtained is the one object p_logic.             *)
(***************************************************************************)
MaxAccesses == 3

MaxInvocations == 2

\* instances of the class that defines the decorated method
Owners == {"o1", "o2"}

otherVarsLogic == <<invokeVars, buildVars, heapVars, factoryVars, singletonVars>>

InitLogic == CoreIdle /\ ExtIdle

\* logic(caller), the getter: p_logic.caller_class = caller; return p_logic
Access(caller) ==
    /\ Len(got) < MaxAccesses
    /\ caller_class' = caller
    /\ got' = Append(got, caller)
    /\ UNCHANGED <<invoked, otherVarsLogic>>

\* ProcessLogicProperty.__call__ on the process obtained by access number i:
\* self.logic_callback(self.caller_class, **kwargs)
InvokeLogic(i) ==
    /\ Len(invoked) < MaxInvocations
    /\ invoked' = Append(invoked, [process |-> i, owner |-> got[i],
                                   self |-> caller_class,
                                   accesses |-> Len(got)])
    /\ UNCHANGED <<caller_class, got, otherVarsLogic>>

NextLogic ==
    \/ \E caller \in Owners : Access(caller)
    \/ \E i \in DOMAIN got : InvokeLogic(i)

SpecLogic == InitLogic /\ [][NextLogic]_vars

\* C22: a process obtained through the property of owner instance o1 calls
\* the method with o1 as owner on every later invocation, also after the
\* property was accessed on another instance o2.
C22_BoundToItsOwner ==
    \A k \in DOMAIN invoked : invoked[k].self = invoked[k].owner

\* the method is called with the instance of the latest access, whichever
\* process was invoked
CalledWithLatestOwner ==
    \A k \in DOMAIN invoked : invoked[k].self = got[invoked[k].accesses]

\* with no access on another instance since, the owner is the right one
OwnerWhenNotAccessedSince ==
    \A k \in DOMAIN invoked :
        (\A a \in invoked[k].process..invoked[k].accesses :
                got[a] = invoked[k].owner)
            => invoked[k].self = invoked[k].owner

(***************************************************************************)
(* processFactory.  With cache=True the factory is the construction        *)
(* function wrapped by functools.lru_cache(cache_size); with cache=False    *)
(* every call goes to ProcessFactory.create.  cache holds the entries of    *)
(* the lru_cache, the least recently used first.  An instance is named by   *)
(* the number of the construction call that created it.                     *)
(***************************************************************************)
cache_size == 2

MaxCalls == 4

MaxUses == 1

\* f(flg=v)
OneKeyword(v) == [args |-> <<>>, kwargs |-> << <<"flg", v>> >>]

\* f(flg=v, size=w) and f(size=w, flg=v)
TwoKeywords(v, w) == [args |-> <<>>, kwargs |-> << <<"flg", v>>, <<"size", w>> >>]

TwoKeywordsSwapped(v, w) ==
    [args |-> <<>>, kwargs |-> << <<"size", w>>, <<"flg", v>> >>]

FactoryCalls ==
    {OneKeyword("True"), OneKeyword("False"),
     TwoKeywords("True", "1"), TwoKeywordsSwapped("True", "1")}

RECURSIVE Flatten(_)
Flatten(kwds) ==
    IF kwds = <<>> THEN <<>> ELSE Head(kwds) \o Flatten(Tail(kwds))

\* functools._make_key with typed=False: the positional arguments, then a
\* mark and the keyword arguments in the order of the call
make_key(c) ==
    IF c.kwargs = <<>> THEN c.args
    ELSE c.args \o <<"kwd_mark">> \o Flatten(c.kwargs)

NoKey == <<>>

Position(key) == {i \in DOMAIN cache : cache[i].key = key}

Without(c, i) == [k \in 1..(Len(c) - 1) |-> IF k < i THEN c[k] ELSE c[k + 1]]

\* a hit that leaves the entry where it is.
RefreshNot(c, i) == c

\* a hit moves the entry to the most recently used end
Refresh(c, i) == Append(Without(c, i), c[i])

\* room made one entry too early.
MakeRoomEarly(c) == IF Len(c) >= cache_size - 1 THEN Tail(c) ELSE c

\* a miss on a full cache drops the least recently used entry
MakeRoom(c) == IF Len(c) >= cache_size THEN Tail(c) ELSE c

otherVarsFactory == <<invokeVars, buildVars, heapVars, logicVars, singletonVars>>

InitFactory == CoreIdle /\ ExtIdle

Called(factory, c, ran, inst, evicted) ==
    [factory |-> factory, call |-> c, key |-> make_key(c), ran |-> ran,
     instance |-> inst, evicted |-> evicted,
     before |-> {cache[i].key : i \in DOMAIN cache}]

\* cached_factory(*args, **kwargs) found in the cache
Hit(c) ==
    /\ Len(created) < MaxCalls
    /\ \E i \in Position(make_key(c)) :
        /\ cache' = Refresh(cache, i)
        /\ created' = Append(created,
                             Called("cached", c, FALSE, cache[i].value, NoKey))
    /\ UNCHANGED <<used, otherVarsFactory>>

\* cached_factory(*args, **kwargs) not in the cache: p_factory.create runs
Miss(c) ==
    /\ Len(created) < MaxCalls
    /\ Position(make_key(c)) = {}
    /\ cache' = Append(MakeRoom(cache),
                       [key |-> make_key(c), value |-> Len(created) + 1])
    /\ created' = Append(created,
                         Called("cached", c, TRUE, Len(created) + 1,
                                IF MakeRoom(cache) = cache THEN NoKey
                                ELSE cache[1].key))
    /\ UNCHANGED <<used, otherVarsFactory>>

\* factory(*args, **kwargs) of a factory decorated with cache=False
Create(c) ==
    /\ Len(created) < MaxCalls
    /\ created' = Append(created,
                         Called("plain", c, TRUE, Len(created) + 1, NoKey))
    /\ UNCHANGED <<cache, used, otherVarsFactory>>

\* the instance returned by construction call k is invoked
InvokeInstance(k) ==
    /\ Len(used) < MaxUses
    /\ used' = Append(used, [instance |-> created[k].instance,
                             at |-> Len(created)])
    /\ UNCHANGED <<cache, created, otherVarsFactory>>

NextFactory ==
    \/ \E c \in FactoryCalls : Hit(c)
    \/ \E c \in FactoryCalls : Miss(c)
    \/ \E c \in FactoryCalls : Create(c)
    \/ \E k \in DOMAIN created : InvokeInstance(k)

SpecFactory == InitFactory /\ [][NextFactory]_vars

(***************************************************************************)
(* Properties of the factories                                             *)
(***************************************************************************)
CachedCalls == {k \in DOMAIN created : created[k].factory = "cached"}

AsDict(kwds) == {kwds[i] : i \in DOMAIN kwds}

\* the same positional arguments and the same value for every keyword
EqualArguments(c, d) ==
    c.args = d.args /\ AsDict(c.kwargs) = AsDict(d.kwargs)

\* the argument tuples requested from the caching factory between calls i, j
Between(i, j) == {created[k].key : k \in {m \in CachedCalls : i < m /\ m < j}}

SameInstanceNotRebuilt(i, j) ==
    /\ created[j].instance = created[i].instance
    /\ ~created[j].ran

PlainAlwaysRuns ==
    \A k \in DOMAIN created : created[k].factory = "plain" => created[k].ran

\* C23 as stated: two calls of a caching factory with equal arguments return
\* the identical instance and construct only for the first, provided no
\* more than cache_size distinct argument tuples were requested in between;
\* a factory that does not cache constructs on every call.
C23_EqualArgumentsSameInstance ==
    /\ \A i, j \in CachedCalls :
        (/\ i < j
         /\ EqualArguments(created[i].call, created[j].call)
         /\ Cardinality(Between(i, j)) <= cache_size)
            => SameInstanceNotRebuilt(i, j)
    /\ PlainAlwaysRuns

\* C23 amended: the arguments are equal as given, keyword arguments in the
\* same order, and fewer than cache_size distinct other argument tuples
\* were requested in between.
C23_SameTupleSameInstance ==
    /\ \A i, j \in CachedCalls :
        (/\ i < j
         /\ created[i].key = created[j].key
         /\ Cardinality(Between(i, j) \ {created[i].key}) < cache_size)
            => SameInstanceNotRebuilt(i, j)
    /\ PlainAlwaysRuns

\* a call repeated after cache_size - 1 other tuples returns the instance of
\* the first call, and the factory that does not cache has built again for
\* a tuple that was built before
C23_Witness ==
    /\ \E i, j \in CachedCalls :
        /\ i < j
        /\ created[i].key = created[j].key
        /\ Cardinality(Between(i, j) \ {created[i].key}) = cache_size - 1
        /\ created[i].ran
        /\ SameInstanceNotRebuilt(i, j)
    /\ \E i, j \in DOMAIN created :
        /\ i < j
        /\ created[j].factory = "plain"
        /\ created[i].key = created[j].key
        /\ created[j].ran
        /\ created[i].instance # created[j].instance

\* the last construction call before call k that asked for key
LastCall(key, k) ==
    LET s == {m \in CachedCalls : m < k /\ created[m].key = key}
    IN  CHOOSE m \in s : \A n \in s : n <= m

Evicting == {k \in CachedCalls : created[k].evicted # NoKey}

\* C24: the cache never holds more than cache_size entries; a miss on a
\* full cache evicts the entry whose most recent construction call, hit or
\* miss, is the oldest; invocations of the instances, which may come between
\* any two construction calls, change nothing of this.
C24_LeastRecentlyConstructedEvicted ==
    /\ Len(cache) <= cache_size
    /\ \A k \in CachedCalls :
        /\ Cardinality(created[k].before) <= cache_size
        /\ k \in Evicting <=>
                (created[k].ran /\ Cardinality(created[k].before) = cache_size)
        /\ k \in Evicting =>
            /\ created[k].evicted \in created[k].before
            /\ \A key \in created[k].before \ {created[k].evicted} :
                    LastCall(created[k].evicted, k) < LastCall(key, k)

\* the entry evicted was created after the one that stays, which was hit
\* since, and the instance of the evicted entry was invoked just before
C24_Witness ==
    \E k \in Evicting :
        /\ \E key \in created[k].before \ {created[k].evicted} :
            /\ ~created[LastCall(key, k)].ran
            /\ \E m \in CachedCalls :
                /\ created[m].key = key /\ created[m].ran
                /\ m < LastCall(created[k].evicted, k)
        /\ \E u \in DOMAIN used :
            /\ used[u].at = k - 1
            /\ used[u].instance = created[LastCall(created[k].evicted, k)].instance

(***************************************************************************)
(* Process.__new__.  _instance is a class attribute: reading cls._instance *)
(* looks it up in cls and then in its base classes, assigning to it stores  *)
(* it in cls itself.  instance[c] is the entry of class c: Absent when c    *)
(* has none of its own, None, or the number of an object.  A construction   *)
(* is the steps of __new__, which threads may interleave.                   *)
(***************************************************************************)
MaxConstructions == 3

Absent == 0 - 1

None == 0

\* ProcessPassThrough, a kind derived from it and a kind derived from Process
Kinds == {"ProcessPassThrough", "Derived", "Other"}

\* the method resolution order of each class, up to Process
mro(cls) ==
    CASE cls = "Derived" -> <<"Derived", "ProcessPassThrough", "Process">>
      [] cls = "Process" -> <<"Process">>
      [] OTHER -> <<cls, "Process">>

RECURSIVE Find(_)
Find(classes) ==
    IF instance[Head(classes)] # Absent THEN instance[Head(classes)]
    ELSE Find(Tail(classes))

\* cls._instance
Lookup(cls) == Find(mro(cls))

Resting == [pc |-> "idle", cls |-> "Process", obj |-> None]

otherVarsSingleton == <<invokeVars, buildVars, heapVars, logicVars, factoryVars>>

InitClasses ==
    /\ instance = [c \in Kinds \cup {"Process"} |->
                        IF c = "Process" THEN None ELSE Absent]
    /\ objects = <<>>
    /\ returned = <<>>

\* one thread
InitSingleton ==
    /\ CoreIdle /\ HeapIdle /\ LogicIdle /\ FactoryIdle
    /\ InitClasses
    /\ thr = [t \in {1} |-> Resting]

\* two threads
InitThreads ==
    /\ CoreIdle /\ HeapIdle /\ LogicIdle /\ FactoryIdle
    /\ InitClasses
    /\ thr = [t \in {1, 2} |-> Resting]

Running == {t \in DOMAIN thr : thr[t].pc # "idle"}

\* cls(): __new__ is entered
Construct(t, cls) ==
    /\ thr[t].pc = "idle"
    /\ Len(returned) + Cardinality(Running) < MaxConstructions
    /\ thr' = [thr EXCEPT ![t] = [pc |-> "check", cls |-> cls, obj |-> None]]
    /\ UNCHANGED <<instance, objects, returned, otherVarsSingleton>>

\* if cls._instance is None
Check(t) ==
    /\ thr[t].pc = "check"
    /\ thr' = [thr EXCEPT ![t].pc =
                    IF Lookup(thr[t].cls) = None THEN "allocate" ELSE "return"]
    /\ UNCHANGED <<instance, objects, returned, otherVarsSingleton>>

\* super(Process, cls).__new__(cls)
Allocate(t) ==
    /\ thr[t].pc = "allocate"
    /\ objects' = Append(objects, thr[t].cls)
    /\ thr' = [thr EXCEPT ![t].pc = "assign", ![t].obj = Len(objects) + 1]
    /\ UNCHANGED <<instance, returned, otherVarsSingleton>>

\* cls._instance = the new object
Assign(t) ==
    /\ thr[t].pc = "assign"
    /\ instance' = [instance EXCEPT ![thr[t].cls] = thr[t].obj]
    /\ thr' = [thr EXCEPT ![t].pc = "return"]
    /\ UNCHANGED <<objects, returned, otherVarsSingleton>>

\* return cls._instance
ReturnInstance(t) ==
    /\ thr[t].pc = "return"
    /\ returned' = Append(returned, [thread |-> t, cls |-> thr[t].cls,
                                     obj |-> Lookup(thr[t].cls)])
    /\ thr' = [thr EXCEPT ![t] = Resting]
    /\ UNCHANGED <<instance, objects, otherVarsSingleton>>

NextSingleton ==
    \/ \E t \in DOMAIN thr, cls \in Kinds : Construct(t, cls)
    \/ \E t \in DOMAIN thr : Check(t)
    \/ \E t \in DOMAIN thr : Allocate(t)
    \/ \E t \in DOMAIN thr : Assign(t)
    \/ \E t \in DOMAIN thr : ReturnInstance(t)

SpecSingleton == InitSingleton /\ [][NextSingleton]_vars

SpecThreads == InitThreads /\ [][NextSingleton]_vars

(***************************************************************************)
(* Properties of the singletons                                            *)
(***************************************************************************)
InstancesOf(kind) == {o \in DOMAIN objects : objects[o] = kind}

AtMostOnePerKind == \A kind \in Kinds : Cardinality(InstancesOf(kind)) <= 1

\* all constructions of one kind returned one object
SameKindSameObject ==
    \A i, j \in DOMAIN returned :
        returned[i].cls = returned[j].cls => returned[i].obj = returned[j].obj

\* C25: after any sequence of constructions, at most one instance of each
\* kind exists and every construction of a kind returned that one instance.
C25_ConstructionIdempotent ==
    /\ AtMostOnePerKind
    /\ \A i \in DOMAIN returned :
            InstancesOf(returned[i].cls) = {returned[i].obj}

\* C26: when two threads construct the same kind for the first time, with
\* any interleaving of their steps, only one instance is created and both
\* threads receive it.
C26_FirstConstructionGuarded ==
    \A i, j \in DOMAIN returned :
        (/\ returned[i].thread # returned[j].thread
         /\ returned[i].cls = returned[j].cls)
            => /\ Cardinality(InstancesOf(returned[i].cls)) <= 1
               /\ returned[i].obj = returned[j].obj

\* isinstance(o, kind)
IsInstance(o, kind) == \E k \in DOMAIN mro(objects[o]) : mro(objects[o])[k] = kind

\* C28: constructing kind K returns an instance of K for every order of
\* constructions, also when K derives from a kind B constructed before.
C28_ReturnsInstanceOfItsKind ==
    \A i \in DOMAIN returned : IsInstance(returned[i].obj, returned[i].cls)

\* a kind none of whose base kinds was constructed before gets an instance
\* of its own
OwnInstanceWhenBaseNotConstructed ==
    \A i \in DOMAIN returned :
        (\A j \in 1..(i - 1) :
            \/ returned[j].cls = returned[i].cls
            \/ \A k \in DOMAIN mro(returned[i].cls) :
                    mro(returned[i].cls)[k] # returned[j].cls)
            => objects[returned[i].obj] = returned[i].cls

(***************************************************************************)
(* Rename tables and the branches they name                                *)
(***************************************************************************)
\* C27: every rename table accepted by / names only branches the Fork has,
\* indexes 0 to the number of branches minus one.
C27_AcceptedTableInRange ==
    (last.op = "/" /\ last.res.ok) =>
        \A k \in DOMAIN last.rhs.items :
            last.rhs.items[k].index < Len(last.lhs.processes)

\* a table that is accepted has no more entries than the Fork has branches
AcceptedTableNoLonger ==
    (last.op = "/" /\ last.res.ok) =>
        Len(last.rhs.items) <= Len(last.lhs.processes)

(***************************************************************************)
(* The payload objects of the branches of a join                           *)
(***************************************************************************)
\* C29: invoking a Joined leaves the payload objects its branches returned
\* unchanged: when the join has returned, each of them holds what its branch
\* returned.
C29_BranchPayloadsUnchanged ==
    (callee.kind = "Joined" /\ pc = "returned") =>
        \A j \in DOMAIN tuple_return : tuple_return[j] = calls[j].out.value

\* the payload the join returns is the object the first branch returned
ResultIsFirstBranchPayload ==
    (callee.kind = "Joined" /\ pc = "returned") => result = tuple_return[1]

====
